---- MODULE Spec2Model ----
(***************************************************************************)
(* Model of src/script.js: the two debounced suggestion widgets            *)
(* (setupLocationAutocomplete, setupPeopleSelector), the session store,    *)
(* fetchWithAuth and logout.                                               *)
(*                                                                         *)
(* Texts are sequences of one-character strings, so that String.trim() is  *)
(* computed and not assumed.  Time is counted in milliseconds and advances *)
(* in steps of TickMs; a timer callback may run once its delay has elapsed *)
(* (a browser may run it later, never earlier).                            *)
(***************************************************************************)
EXTENDS Integers, Sequences, FiniteSets, TLC

\* ------------------------------------------------------------- bounds
TickMs == 100
MaxInFlight == 2
MaxItems == 1
MaxBlur == 1
MaxTimers == 2
MaxSubs == 2
MaxFeeds == 2
MaxLikes == 2
MaxPicks == 2

\* ------------------------------------------------- program constants
LocDelayShort == 250 - 150
SearchDelay == 300
LocDelay == 250
PplDelay == 200
BlurDelay == 150
MinQueryLen == 2

\* ------------------------------------------------------------- values
W == {"loc", "ppl"}

Delay(w) == IF w = "loc" THEN LocDelay ELSE PplDelay

\* Values the user can leave in an input field.
Inputs ==
  { <<>>, <<" ", "a">>, <<"a", "b", " ">>, <<"a", "b", "c">> }

IsSpace(c) == c = " "

RECURSIVE TrimStart(_)
TrimStart(s) ==
  IF s = <<>> THEN <<>>
  ELSE IF IsSpace(Head(s)) THEN TrimStart(Tail(s)) ELSE s

RECURSIVE TrimEnd(_)
TrimEnd(s) ==
  IF s = <<>> THEN <<>>
  ELSE IF IsSpace(s[Len(s)]) THEN TrimEnd(SubSeq(s, 1, Len(s) - 1)) ELSE s

\* String.prototype.trim
Trim(s) == TrimEnd(TrimStart(s))

\* Identifiers of the items the two remote services know.
PlaceIds == {1, 2}
PersonIds == {1, 2, 3}
ItemIds(w) == IF w = "loc" THEN PlaceIds ELSE PersonIds

\* display_name of a place
PlaceName(id) == IF id = 1 THEN <<"a", "b">> ELSE <<"p">>

\* The authenticated user of the page (the /auth/me payload's id).
SelfId == 1

RECURSIVE SeqsUpTo(_, _)
SeqsUpTo(S, n) ==
  IF n = 0 THEN { <<>> }
  ELSE LET shorter == SeqsUpTo(S, n - 1)
       IN shorter \cup { Append(s, x) : s \in { t \in shorter : Len(t) = n - 1 }, x \in S }

\* JSON arrays a service can answer with.
DataLists(w) == SeqsUpTo(ItemIds(w), MaxItems)

\* What can come back for a dispatched query:
\*   ok      2xx with a JSON array            status  non-2xx other than 401
\*   unauth  401                              neterr  fetch() rejects
\*   badjson res.json() rejects               null    2xx with JSON null
\*   object  2xx with a JSON value that is no array
RespKinds == {"ok", "status", "unauth", "neterr", "badjson", "null", "object"}

Responses(w) ==
  { [kind |-> "ok", data |-> d] : d \in DataLists(w) }
  \cup { [kind |-> k, data |-> <<>>] : k \in RespKinds \ {"ok"} }

NoItem == "absent"
NoUser == 0
NoText == <<"none">>
NotReturned == 0 - 1

\* body.dataset.page of the documents, and what init() runs for each
Pages == {"feed", "photo-detail", "login", "signup", "creator-dashboard", "profile"}
PublicPages == {"login", "signup"}

Binders(p) ==
  CASE p = "feed" -> {"bindSearch", "bindCreatePostModal", "loadFeed"}
    [] p = "photo-detail" -> {"bindSearch", "bindCreatePostModal", "loadPhotoDetail"}
    [] p = "login" -> {"bindLoginForm"}
    [] p = "signup" -> {"bindSignupForm"}
    [] p = "creator-dashboard" ->
         {"bindSearch", "loadCreatorDashboard", "bindUploadForm",
          "bindCreatePostModal", "refreshFeeds"}
    [] p = "profile" -> {"bindSearch", "bindCreatePostModal", "loadProfilePage"}
    [] OTHER -> {}

\* the photo forms: the upload form of the creator dashboard and the form of
\* the create-post modal, and the binder that wires each
F == {"upload", "modal"}
BinderOf(f) == IF f = "upload" THEN "bindUploadForm" ELSE "bindCreatePostModal"

\* image URLs the upload service hands out
Urls == {1, 2}
NoUrl == 0

\* the pages whose loader calls fetchWithAuth
LoaderPages == {"creator-dashboard", "profile"}

\* the document a value of window.location.href leads to
PageOf(h) == IF h = "login.html" THEN "login" ELSE "feed"

\* what can come back from /auth/me, /auth/login and the loaders' requests
AuthKinds == {"ok", "status", "unauth", "neterr", "badjson", "null"}

\* the containers loadFeed renders into, and the ones each document has (the
\* feed page the main grid, the creator dashboard its own)
Grids == {"photo-grid", "dashboard-photo-grid"}
GridsOf(p) ==
  IF p = "feed" THEN {"photo-grid"}
  ELSE IF p = "creator-dashboard" THEN {"dashboard-photo-grid"}
  ELSE {}

\* values the user can leave in #search-input, and the q parameters a
\* document can be opened with
SearchInputs == { <<>>, <<"a">>, <<"b", " ">> }
UrlQueries == { <<>>, <<"a">> }

\* what can come back from GET /photos:
\*   ok      2xx with a non-empty JSON array   empty  2xx with an empty array
\*   status  non-2xx                           neterr fetch() rejects
\*   badjson res.json() rejects                null   2xx with JSON null
FeedKinds == {"ok", "empty", "status", "neterr", "badjson", "null"}

\* what a grid shows before loadFeed has touched it
NoFeed == [state |-> "none", q |-> NoText]

\* the like buttons: the card button of each grid and #like-btn
LikeButtons == Grids \cup {"like-btn"}

VARIABLES
  inputVal,       \* inputEl.value of each widget
  selectedValue,  \* location widget: selectedValue
  selected,       \* people selector: selected (ids, in commit order)
  timeout,        \* each widget's `timeout` handle (0: undefined)
  timers,         \* pending setTimeout(fetchSuggestions) callbacks of each widget
  blurTimers,     \* pending setTimeout(clearSuggestions) callbacks (remaining ms)
  results,        \* each widget's `results`
  rendered,       \* the items in suggestionsEl
  inflight,       \* dispatched queries without a response yet, in dispatch order
  store,          \* localStorage
  currentUser,    \* module variable currentUser (its id, NoUser: null)
  href,           \* last value assigned to window.location.href
  \* history variables
  shown,          \* the query whose response produced the rendered list
  armed,          \* trimmed text of the last input event, until a query is dispatched
  elapsed,        \* ms since the last input event that started a timer
  burst,          \* input events since the last dispatch that started a timer
  quiet,          \* reset() ran and no input event followed
  rejected,       \* a fetchSuggestions promise rejected
  last,           \* the last step taken, when a claim is about it
  live,           \* the widget instance this behaviour follows
  page,           \* document.body.dataset.page of the loaded document
  boot,           \* where init() is: "loading", "hydrating", "done"
  bound,          \* the binders and loaders init() has run
  authInflight,   \* requests of init, its loaders and the login form in flight
  me,             \* what hydrateSession returned
  tornDown,       \* history: logout() ran and no login has succeeded since
  disabled,       \* submitBtn.disabled of each photo form
  subs,           \* each form's submissions in flight, in the order they started
  feedback,       \* each form's feedback text
  draft,          \* what the user has put into each form: "empty" or "filled"
  modalOpen,      \* the create-post modal is shown
  grids,          \* the feed grids the loaded document has
  searchVal,      \* value of #search-input
  debounceHandle, \* bindSearch's debounceHandle (0: undefined)
  searchTimers,   \* pending setTimeout callbacks of bindSearch
  feedInflight,   \* loadFeed requests without a response yet, in dispatch order
  gridShown,      \* what each grid shows, and the query it was fetched for
  searched,       \* history: an input event on #search-input since the load
  urlQuery,       \* the q parameter of window.location.search
  hrefQuery,      \* the q parameter of the last value assigned to href
  likeInflight,   \* like-toggle requests without a response yet
  likeDisabled,   \* `disabled` of the like button of each grid and of #like-btn
  cardGen,        \* which rendering of a grid its card like button belongs to
  canInteract,    \* bindLikeButton's canInteract
  photoLoading    \* loadPhotoDetail's request is in flight

vars ==
  << inputVal, selectedValue, selected, timeout, timers, blurTimers, results,
     rendered, inflight, store, currentUser, href, shown,
     armed, elapsed, burst, quiet, rejected, last, live,
     page, boot, bound, authInflight, me, tornDown,
     disabled, subs, feedback, draft, modalOpen,
     grids, searchVal, debounceHandle, searchTimers, feedInflight, gridShown,
     searched, urlQuery, hrefQuery,
     likeInflight, likeDisabled, cardGen, canInteract, photoLoading >>

\* ------------------------------------------------------------ helpers
TokenKey == "photoshare_token"
RoleKey == "photoshare_role"
NameKey == "photoshare_name"
UserIdKey == "photoshare_user_id"
StoreKeys == {TokenKey, RoleKey, NameKey, UserIdKey}

NoShown == [q |-> NoText, overtaken |-> FALSE]

Min(a, b) == IF a < b THEN a ELSE b
Max(a, b) == IF a > b THEN a ELSE b

RemoveAt(s, i) == SubSeq(s, 1, i - 1) \o SubSeq(s, i + 1, Len(s))

\* The response to the i-th query in flight arrives: it leaves the network,
\* and every query dispatched before it that is still in flight is now
\* overtaken (it will resolve after a later-dispatched query did).
Resolve(reqs, i) ==
  RemoveAt([j \in 1..Len(reqs) |->
              IF j < i THEN [reqs[j] EXCEPT !.overtaken = TRUE] ELSE reqs[j]], i)

\* Array.prototype.filter, keeping the elements outside drop
RECURSIVE Filter(_, _)
Filter(s, drop) ==
  IF s = <<>> THEN <<>>
  ELSE IF Head(s) \notin drop THEN <<Head(s)>> \o Filter(Tail(s), drop)
       ELSE Filter(Tail(s), drop)

Range(s) == { s[i] : i \in 1..Len(s) }

\* getToken
getToken == IF store[TokenKey] = NoItem THEN NoItem ELSE store[TokenKey]

ClearTimeoutNoop(ts, h) == ts

\* clearTimeout(h): the callback with handle h, if still pending, never runs
ClearTimeout(ts, h) == { t \in ts : t.id # h }

\* setTimeout returns a handle no pending callback has
FreshHandle(ts) ==
  CHOOSE i \in 1..(Cardinality(ts) + 1) :
    /\ i \notin { t.id : t \in ts }
    /\ \A j \in 1..(i - 1) : j \in { t.id : t \in ts }

\* the state logout() leaves in localStorage
LogoutStore(s) ==
  [s EXCEPT ![TokenKey] = NoItem, ![RoleKey] = NoItem, ![NameKey] = NoItem]

\* clearSuggestions of widget w
ClearSuggestions(w) ==
  /\ results' = [results EXCEPT ![w] = <<>>]
  /\ rendered' = [rendered EXCEPT ![w] = <<>>]
  /\ shown' = [shown EXCEPT ![w] = NoShown]

\* renderSuggestions(items) after `results = items`
RenderSuggestions(w, items, from) ==
  IF items = <<>>
  THEN ClearSuggestions(w)
  ELSE /\ results' = [results EXCEPT ![w] = items]
       /\ rendered' = [rendered EXCEPT ![w] = items]
       /\ shown' = [shown EXCEPT ![w] = from]

\* ------------------------------------------------------------ session
Init ==
  /\ inputVal = [w \in W |-> <<>>]
  /\ selectedValue = <<>>
  /\ selected = <<>>
  /\ timeout = [w \in W |-> 0]
  /\ timers = [w \in W |-> {}]
  /\ blurTimers = [w \in W |-> {}]
  /\ results = [w \in W |-> <<>>]
  /\ rendered = [w \in W |-> <<>>]
  /\ inflight = [w \in W |-> <<>>]
  /\ store = [k \in StoreKeys |-> IF k = UserIdKey THEN "id" ELSE "set"]
  /\ currentUser = SelfId
  /\ href = ""
  /\ shown = [w \in W |-> NoShown]
  /\ armed = [w \in W |-> NoText]
  /\ elapsed = [w \in W |-> 0]
  /\ burst = [w \in W |-> 0]
  /\ quiet = [w \in W |-> FALSE]
  /\ rejected = [w \in W |-> FALSE]
  /\ last = [op |-> "other", w |-> "-", n |-> 0]
  /\ live \in W
  /\ page = "feed"
  /\ boot = "done"
  /\ bound = {"bindLogoutButtons"} \cup Binders("feed")
  /\ authInflight = {}
  /\ me = SelfId
  /\ tornDown = FALSE
  /\ disabled = [f \in F |-> FALSE]
  /\ subs = [f \in F |-> <<>>]
  /\ feedback = [f \in F |-> ""]
  /\ draft = [f \in F |-> "empty"]
  /\ modalOpen = FALSE
  /\ grids = GridsOf("feed")
  /\ searchVal = <<>>
  /\ debounceHandle = 0
  /\ searchTimers = {}
  /\ feedInflight = <<>>
  /\ gridShown = [g \in Grids |->
       IF g \in GridsOf("feed") THEN [state |-> "photos", q |-> <<>>] ELSE NoFeed]
  /\ searched = FALSE
  /\ urlQuery = <<>>
  /\ hrefQuery = <<>>
  /\ likeInflight = <<>>
  /\ likeDisabled = [b \in LikeButtons |-> FALSE]
  /\ cardGen = [g \in Grids |-> IF g \in GridsOf("feed") THEN 1 ELSE 0]
  /\ canInteract = FALSE
  /\ photoLoading = FALSE

sessionVars == << store, currentUser, href, tornDown >>
pageVars == << page, boot, bound, authInflight, me >>
formVars == << disabled, subs, feedback, draft, modalOpen >>
feedVars ==
  << grids, searchVal, debounceHandle, searchTimers, feedInflight, gridShown,
     searched, urlQuery, hrefQuery >>
likeVars == << likeInflight, likeDisabled, cardGen, canInteract, photoLoading >>
widgetVars ==
  << inputVal, selectedValue, selected, timeout, timers, blurTimers, results,
     rendered, inflight, shown, armed, elapsed, burst, quiet, rejected >>
locOnly == << selectedValue >>
pplOnly == << selected >>

\* logout(), bound to the logout buttons
Logout ==
  /\ store' = LogoutStore(store)
  /\ currentUser' = NoUser
  /\ href' = "login.html"
  /\ tornDown' = TRUE
  /\ last' = [op |-> "logout", w |-> "-", n |-> 0]
  /\ UNCHANGED << live, feedVars, likeVars, pageVars, formVars, inputVal, selectedValue, selected, timeout, timers, blurTimers,
                  results, rendered, inflight, shown, armed,
                  elapsed, burst, quiet, rejected >>

\* a commit made while a blur handler's timer is pending is told apart
CommitOp(w) == IF blurTimers[w] # {} THEN "commit-in-grace" ELSE "commit"

\* ------------------------------------------- location autocomplete
\* input handler of setupLocationAutocomplete
LocInput(v) ==
  LET value == Trim(v)
      pending == ClearTimeout(timers["loc"], timeout["loc"])
  IN /\ v # inputVal["loc"]
     /\ inputVal' = [inputVal EXCEPT !["loc"] = v]
     /\ selectedValue' = Trim(v)
     /\ IF Len(value) < MinQueryLen
        THEN /\ timers' = [timers EXCEPT !["loc"] = pending]
             /\ ClearSuggestions("loc")
             /\ UNCHANGED << timeout, elapsed, burst >>
        ELSE LET h == FreshHandle(pending)
             IN /\ Cardinality(pending) < MaxTimers
                /\ timers' = [timers EXCEPT !["loc"] =
                     pending \cup {[id |-> h, value |-> value, remaining |-> LocDelay]}]
                /\ timeout' = [timeout EXCEPT !["loc"] = h]
                /\ elapsed' = [elapsed EXCEPT !["loc"] = 0]
                /\ burst' = [burst EXCEPT !["loc"] =
                     IF timers["loc"] = {} THEN 1 ELSE Min(burst["loc"] + 1, 2)]
                /\ UNCHANGED << results, rendered, shown >>
     /\ armed' = [armed EXCEPT !["loc"] = value]
     /\ quiet' = [quiet EXCEPT !["loc"] = FALSE]
     /\ last' = [op |-> "other", w |-> "-", n |-> 0]
     /\ UNCHANGED << live, feedVars, likeVars, pageVars, formVars, selected, blurTimers, inflight, rejected,
                     sessionVars >>

\* the timer callback: fetchSuggestions(value) up to its `await fetch(...)`
LocDispatch ==
  \E t \in timers["loc"] :
    /\ t.remaining = 0
    /\ Len(inflight["loc"]) < MaxInFlight
    /\ timers' = [timers EXCEPT !["loc"] = timers["loc"] \ {t}]
    /\ inflight' = [inflight EXCEPT !["loc"] =
         Append(inflight["loc"], [q |-> t.value, bearer |-> FALSE, overtaken |-> FALSE])]
    /\ armed' = [armed EXCEPT !["loc"] = NoText]
    /\ elapsed' = [elapsed EXCEPT !["loc"] = 0]
    /\ burst' = [burst EXCEPT !["loc"] = 0]
    /\ last' = [op |-> "dispatch", w |-> "loc", n |-> burst["loc"]]
    /\ UNCHANGED << live, feedVars, likeVars, pageVars, formVars, inputVal, selectedValue, selected, timeout, blurTimers,
                    results, rendered, shown, quiet, rejected, sessionVars >>

\* the try block of the location fetchSuggestions, from the response on:
\* what it throws, or the results it computes
LocTry(resp) ==
  CASE resp.kind = "neterr" -> [threw |-> TRUE, items |-> <<>>]
    [] resp.kind \in {"status", "unauth"} -> [threw |-> FALSE, items |-> <<>>]
    [] resp.kind = "badjson" -> [threw |-> TRUE, items |-> <<>>]
    [] resp.kind = "null" -> [threw |-> FALSE, items |-> <<>>]
    [] resp.kind = "object" -> [threw |-> TRUE, items |-> <<>>]
    [] OTHER -> [threw |-> FALSE, items |-> resp.data]

LocSettleNoCatch(resp) ==
  LET t == LocTry(resp)
  IN [items |-> t.items, rejected |-> t.threw]

\* fetchSuggestions as a whole: the catch block turns a throw into a clear
LocSettle(resp) ==
  LET t == LocTry(resp)
  IN IF t.threw
     THEN [items |-> <<>>, rejected |-> FALSE]
     ELSE [items |-> t.items, rejected |-> FALSE]

RespOp(resp, out) ==
  IF out.rejected THEN "rejected"
  ELSE IF resp.kind \in {"ok", "null"} THEN "other"
  ELSE "fail"

\* the rest of the location fetchSuggestions, run when the response arrives
LocResponse(i, resp) ==
  LET r == inflight["loc"][i]
      out == LocSettle(resp)
  IN /\ inflight' = [inflight EXCEPT !["loc"] = Resolve(inflight["loc"], i)]
     /\ RenderSuggestions("loc", out.items, [q |-> r.q, overtaken |-> r.overtaken])
     /\ rejected' = [rejected EXCEPT !["loc"] = rejected["loc"] \/ out.rejected]
     /\ last' = [op |-> RespOp(resp, out),
                 w |-> IF RespOp(resp, out) = "other" THEN "-" ELSE "loc", n |-> 0]
     /\ UNCHANGED << live, feedVars, likeVars, pageVars, formVars, inputVal, selectedValue, selected, timeout, timers,
                     blurTimers, armed, elapsed, burst, quiet, sessionVars >>

LocMousedownKeepsInput(i) ==
  /\ i \in 1..Len(rendered["loc"])
  /\ IF i \in 1..Len(results["loc"])
     THEN /\ selectedValue' = PlaceName(results["loc"][i])
          /\ ClearSuggestions("loc")
          /\ last' = [op |-> CommitOp("loc"), w |-> "loc", n |-> i]
          /\ UNCHANGED inputVal
     ELSE /\ UNCHANGED << selectedValue, inputVal, results, rendered, shown >>
          /\ last' = [op |-> "other", w |-> "-", n |-> 0]
  /\ UNCHANGED << live, feedVars, likeVars, pageVars, formVars, selected, timeout, timers, blurTimers, inflight,
                  armed, elapsed, burst, quiet, rejected,
                  sessionVars >>

\* mousedown handler of the location widget, on rendered item i
LocMousedown(i) ==
  /\ i \in 1..Len(rendered["loc"])
  /\ IF i \in 1..Len(results["loc"])
     THEN /\ selectedValue' = PlaceName(results["loc"][i])
          /\ inputVal' = [inputVal EXCEPT !["loc"] = PlaceName(results["loc"][i])]
          /\ ClearSuggestions("loc")
          /\ last' = [op |-> CommitOp("loc"), w |-> "loc", n |-> i]
     ELSE /\ UNCHANGED << selectedValue, inputVal, results, rendered, shown >>
          /\ last' = [op |-> "other", w |-> "-", n |-> 0]
  /\ UNCHANGED << live, feedVars, likeVars, pageVars, formVars, selected, timeout, timers, blurTimers, inflight,
                  armed, elapsed, burst, quiet, rejected,
                  sessionVars >>

\* getValue() of the location widget
getValue == IF selectedValue # <<>> THEN selectedValue ELSE Trim(inputVal["loc"])

LocResetShared ==
  /\ selectedValue' = <<>>
  /\ selected' = <<>>
  /\ inputVal' = [inputVal EXCEPT !["loc"] = <<>>]
  /\ ClearSuggestions("loc")
  /\ quiet' = [quiet EXCEPT !["loc"] = TRUE]
  /\ last' = [op |-> "reset", w |-> "loc", n |-> 0]
  /\ UNCHANGED << live, feedVars, likeVars, pageVars, formVars, timeout, timers, blurTimers, inflight,
                  armed, elapsed, burst, rejected, sessionVars >>

\* reset() of the location widget
LocReset ==
  /\ selectedValue' = <<>>
  /\ inputVal' = [inputVal EXCEPT !["loc"] = <<>>]
  /\ ClearSuggestions("loc")
  /\ quiet' = [quiet EXCEPT !["loc"] = TRUE]
  /\ last' = [op |-> "reset", w |-> "loc", n |-> 0]
  /\ UNCHANGED << live, feedVars, likeVars, pageVars, formVars, selected, timeout, timers, blurTimers, inflight,
                  armed, elapsed, burst, rejected, sessionVars >>

\* ---------------------------------------------------- people selector
\* input handler of setupPeopleSelector
PplInput(v) ==
  LET value == Trim(v)
      pending == ClearTimeout(timers["ppl"], timeout["ppl"])
  IN /\ v # inputVal["ppl"]
     /\ inputVal' = [inputVal EXCEPT !["ppl"] = v]
     /\ IF Len(value) < MinQueryLen
        THEN /\ timers' = [timers EXCEPT !["ppl"] = pending]
             /\ ClearSuggestions("ppl")
             /\ UNCHANGED << timeout, elapsed, burst >>
        ELSE LET h == FreshHandle(pending)
             IN /\ Cardinality(pending) < MaxTimers
                /\ timers' = [timers EXCEPT !["ppl"] =
                     pending \cup {[id |-> h, value |-> value, remaining |-> PplDelay]}]
                /\ timeout' = [timeout EXCEPT !["ppl"] = h]
                /\ elapsed' = [elapsed EXCEPT !["ppl"] = 0]
                /\ burst' = [burst EXCEPT !["ppl"] =
                     IF timers["ppl"] = {} THEN 1 ELSE Min(burst["ppl"] + 1, 2)]
                /\ UNCHANGED << results, rendered, shown >>
     /\ armed' = [armed EXCEPT !["ppl"] = value]
     /\ quiet' = [quiet EXCEPT !["ppl"] = FALSE]
     /\ last' = [op |-> "other", w |-> "-", n |-> 0]
     /\ UNCHANGED << live, feedVars, likeVars, pageVars, formVars, selectedValue, selected, blurTimers, inflight,
                     rejected, sessionVars >>

FetchWithAuthRequestStale(q) ==
  [q |-> q, bearer |-> TRUE, overtaken |-> FALSE]

\* fetchWithAuth up to its `await fetch(...)`: the Authorization header is
\* set iff a token is stored when the call is made
FetchWithAuthRequest(q) ==
  [q |-> q, bearer |-> getToken # NoItem, overtaken |-> FALSE]

\* the timer callback: fetchSuggestions(value) up to the await in fetchWithAuth
PplDispatch ==
  \E t \in timers["ppl"] :
    /\ t.remaining = 0
    /\ Len(inflight["ppl"]) < MaxInFlight
    /\ timers' = [timers EXCEPT !["ppl"] = timers["ppl"] \ {t}]
    /\ inflight' = [inflight EXCEPT !["ppl"] =
         Append(inflight["ppl"], FetchWithAuthRequest(t.value))]
    /\ armed' = [armed EXCEPT !["ppl"] = NoText]
    /\ elapsed' = [elapsed EXCEPT !["ppl"] = 0]
    /\ burst' = [burst EXCEPT !["ppl"] = 0]
    /\ last' = [op |-> "dispatch", w |-> "ppl", n |-> burst["ppl"]]
    /\ UNCHANGED << live, feedVars, likeVars, pageVars, formVars, inputVal, selectedValue, selected, timeout, blurTimers,
                    results, rendered, shown, quiet, rejected, sessionVars >>

\* fetchWithAuth after the await: a 401 tears the session down and rejects
FetchWithAuthUnauthorized(resp) == resp.kind = "unauth"

PplTryNoSelectedFilter(resp, sel, user) ==
  CASE resp.kind \in {"neterr", "unauth", "badjson", "object"} ->
         [threw |-> TRUE, items |-> <<>>]
    [] resp.kind \in {"status", "null"} -> [threw |-> FALSE, items |-> <<>>]
    [] OTHER -> [threw |-> FALSE, items |-> Filter(resp.data, {user})]

\* the try block of the people fetchSuggestions, from the response on
PplTry(resp, sel, user) ==
  CASE resp.kind = "neterr" -> [threw |-> TRUE, items |-> <<>>]
    [] FetchWithAuthUnauthorized(resp) -> [threw |-> TRUE, items |-> <<>>]
    [] resp.kind = "status" -> [threw |-> FALSE, items |-> <<>>]
    [] resp.kind = "badjson" -> [threw |-> TRUE, items |-> <<>>]
    [] resp.kind = "null" -> [threw |-> FALSE, items |-> <<>>]
    [] resp.kind = "object" -> [threw |-> TRUE, items |-> <<>>]
    [] OTHER -> [threw |-> FALSE,
                 items |-> Filter(resp.data, Range(sel) \cup {user})]

\* fetchSuggestions as a whole: the catch block turns a throw into a clear
PplSettle(resp, sel, user) ==
  LET t == PplTry(resp, sel, user)
  IN IF t.threw
     THEN [items |-> <<>>, rejected |-> FALSE]
     ELSE [items |-> t.items, rejected |-> FALSE]

\* the rest of fetchWithAuth and of the people fetchSuggestions, run when the
\* response arrives
PplResponse(i, resp) ==
  LET r == inflight["ppl"][i]
      out == PplSettle(resp, selected, currentUser)
  IN /\ inflight' = [inflight EXCEPT !["ppl"] = Resolve(inflight["ppl"], i)]
     /\ IF FetchWithAuthUnauthorized(resp)
        THEN /\ store' = LogoutStore(store)
             /\ currentUser' = NoUser
             /\ href' = "login.html"
             /\ tornDown' = TRUE
        ELSE UNCHANGED sessionVars
     /\ RenderSuggestions("ppl", out.items, [q |-> r.q, overtaken |-> r.overtaken])
     /\ rejected' = [rejected EXCEPT !["ppl"] = rejected["ppl"] \/ out.rejected]
     /\ last' = [op |-> IF FetchWithAuthUnauthorized(resp) /\ ~out.rejected
                        THEN "unauth" ELSE RespOp(resp, out),
                 w |-> IF RespOp(resp, out) = "other" THEN "-" ELSE "ppl", n |-> 0]
     /\ UNCHANGED << live, feedVars, likeVars, pageVars, formVars, inputVal, selectedValue, selected, timeout, timers,
                     blurTimers, armed, elapsed, burst, quiet >>

PplMousedownKeepsList(i) ==
  /\ i \in 1..Len(rendered["ppl"])
  /\ IF i \in 1..Len(results["ppl"])
     THEN /\ selected' = Append(selected, results["ppl"][i])
          /\ inputVal' = [inputVal EXCEPT !["ppl"] = <<>>]
          /\ last' = [op |-> CommitOp("ppl"), w |-> "ppl", n |-> i]
          /\ UNCHANGED << results, rendered, shown >>
     ELSE /\ UNCHANGED << selected, inputVal, results, rendered, shown >>
          /\ last' = [op |-> "other", w |-> "-", n |-> 0]
  /\ UNCHANGED << live, feedVars, likeVars, pageVars, formVars, selectedValue, timeout, timers, blurTimers, inflight,
                  armed, elapsed, burst, quiet, rejected,
                  sessionVars >>

\* mousedown handler of the people selector, on rendered item i
PplMousedown(i) ==
  /\ i \in 1..Len(rendered["ppl"])
  /\ IF i \in 1..Len(results["ppl"])
     THEN /\ selected' = Append(selected, results["ppl"][i])
          /\ inputVal' = [inputVal EXCEPT !["ppl"] = <<>>]
          /\ ClearSuggestions("ppl")
          /\ last' = [op |-> CommitOp("ppl"), w |-> "ppl", n |-> i]
     ELSE /\ UNCHANGED << selected, inputVal, results, rendered, shown >>
          /\ last' = [op |-> "other", w |-> "-", n |-> 0]
  /\ UNCHANGED << live, feedVars, likeVars, pageVars, formVars, selectedValue, timeout, timers, blurTimers, inflight,
                  armed, elapsed, burst, quiet, rejected,
                  sessionVars >>

\* the remove handler for ids the service sends as JSON numbers: no
\* person.id is then identical to the string of a data-id attribute
PplRemoveNumeric(id) ==
  /\ id \in Range(selected)
  /\ selected' = Filter(selected, {})
  /\ last' = [op |-> "remove", w |-> "ppl", n |-> id]
  /\ UNCHANGED << live, feedVars, likeVars, pageVars, formVars, inputVal, selectedValue, timeout, timers, blurTimers, results,
                  rendered, inflight, shown, armed, elapsed,
                  burst, quiet, rejected, sessionVars >>

\* click handler of a chip's remove button.  `person.id !== id` compares
\* with button.dataset.id, a string: the ids of the service are strings (the
\* file compares them with localStorage values, 584-587), so the comparison
\* is one of content.
PplRemove(id) ==
  /\ id \in Range(selected)
  /\ selected' = Filter(selected, {id})
  /\ last' = [op |-> "remove", w |-> "ppl", n |-> id]
  /\ UNCHANGED << live, feedVars, likeVars, pageVars, formVars, inputVal, selectedValue, timeout, timers, blurTimers, results,
                  rendered, inflight, shown, armed, elapsed,
                  burst, quiet, rejected, sessionVars >>

\* getSelectedIds of the people selector
getSelectedIds == [i \in 1..Len(selected) |-> selected[i]]

\* reset() of the people selector
PplReset ==
  /\ selected' = <<>>
  /\ ClearSuggestions("ppl")
  /\ inputVal' = [inputVal EXCEPT !["ppl"] = <<>>]
  /\ quiet' = [quiet EXCEPT !["ppl"] = TRUE]
  /\ last' = [op |-> "reset", w |-> "ppl", n |-> 0]
  /\ UNCHANGED << live, feedVars, likeVars, pageVars, formVars, selectedValue, timeout, timers, blurTimers, inflight,
                  armed, elapsed, burst, rejected, sessionVars >>

\* ------------------------------------------------------ blur and time
BlurSync(w) ==
  /\ Cardinality(blurTimers[w]) < MaxBlur
  /\ ClearSuggestions(w)
  /\ last' = [op |-> "other", w |-> "-", n |-> 0]
  /\ UNCHANGED << live, feedVars, likeVars, pageVars, formVars, inputVal, selectedValue, selected, timeout, timers, blurTimers,
                  inflight, armed, elapsed, burst, quiet, rejected, sessionVars >>

\* blur handler of either widget: clearSuggestions after BlurDelay
Blur(w) ==
  /\ Cardinality(blurTimers[w]) < MaxBlur
  /\ blurTimers' = [blurTimers EXCEPT ![w] = blurTimers[w] \cup {BlurDelay}]
  /\ last' = [op |-> "other", w |-> "-", n |-> 0]
  /\ UNCHANGED << live, feedVars, likeVars, pageVars, formVars, inputVal, selectedValue, selected, timeout, timers, results,
                  rendered, inflight, shown, armed, elapsed,
                  burst, quiet, rejected, sessionVars >>

\* the blur handler's timer callback
BlurClear(w) ==
  /\ 0 \in blurTimers[w]
  /\ blurTimers' = [blurTimers EXCEPT ![w] = blurTimers[w] \ {0}]
  /\ ClearSuggestions(w)
  /\ last' = [op |-> "other", w |-> "-", n |-> 0]
  /\ UNCHANGED << live, feedVars, likeVars, pageVars, formVars, inputVal, selectedValue, selected, timeout, timers, inflight,
                  armed, elapsed, burst, quiet, rejected,
                  sessionVars >>

\* TickMs milliseconds pass
Tick ==
  /\ \E w \in W :
       \/ \E t \in timers[w] : t.remaining > 0
       \/ \E b \in blurTimers[w] : b > 0
  /\ timers' = [w \in W |->
       { [t EXCEPT !.remaining = Max(0, t.remaining - TickMs)] : t \in timers[w] }]
  /\ blurTimers' = [w \in W |-> { Max(0, b - TickMs) : b \in blurTimers[w] }]
  /\ elapsed' = [w \in W |->
       IF timers[w] = {} THEN elapsed[w] ELSE Min(Delay(w), elapsed[w] + TickMs)]
  /\ last' = [op |-> "other", w |-> "-", n |-> 0]
  /\ UNCHANGED << live, feedVars, likeVars, pageVars, formVars, inputVal, selectedValue, selected, timeout, results, rendered,
                  inflight, shown, armed, burst, quiet, rejected,
                  sessionVars >>

\* --------------------------------------------------- specifications
\* The widget instances are closures that share no variable, so a behaviour
\* follows one instance at a time (live).  Once a navigation is requested
\* (href is set) the user no longer interacts with the page; the callbacks
\* already scheduled still run until the document is replaced.
Runs(w) == live = w
UserAt(w) == live = w /\ href = ""

Next ==
  \/ \E v \in Inputs : UserAt("loc") /\ LocInput(v)
  \/ Runs("loc") /\ LocDispatch
  \/ \E i \in 1..MaxInFlight, resp \in Responses("loc") :
       Runs("loc") /\ i <= Len(inflight["loc"]) /\ LocResponse(i, resp)
  \/ \E i \in 1..MaxItems : UserAt("loc") /\ LocMousedown(i)
  \/ UserAt("loc") /\ LocReset
  \/ \E v \in Inputs : UserAt("ppl") /\ PplInput(v)
  \/ Runs("ppl") /\ PplDispatch
  \/ \E i \in 1..MaxInFlight, resp \in Responses("ppl") :
       Runs("ppl") /\ i <= Len(inflight["ppl"]) /\ PplResponse(i, resp)
  \/ \E i \in 1..MaxItems : UserAt("ppl") /\ PplMousedown(i)
  \/ \E id \in PersonIds : UserAt("ppl") /\ PplRemove(id)
  \/ UserAt("ppl") /\ PplReset
  \/ Tick

Spec == Init /\ [][Next]_vars

\* Next with the logout buttons
NextSession ==
  \/ Next
  \/ href = "" /\ Logout

SpecSession == Init /\ [][NextSession]_vars

\* Next with the blur handlers and their delayed clear
NextBlur ==
  \/ Next
  \/ \E w \in W : UserAt(w) /\ Blur(w)
  \/ \E w \in W : Runs(w) /\ BlurClear(w)

SpecBlur == Init /\ [][NextBlur]_vars

\* Both instances of a form in one behaviour.  To keep the product of the two
\* instances small, what the user types and what the services answer is
\* narrowed (an empty and a long enough text, a one-item answer and a
\* failure, one query in flight per instance), and only the instance the
\* behaviour follows (live) gets every event; the other one is typed into,
\* queried, answered and committed, so that it holds a pending timer, a
\* request, a list and a selection while the events of the first happen.
PairInputs == { <<>>, <<"a", "b", "c">> }

PairResponses ==
  { [kind |-> "ok", data |-> <<2>>], [kind |-> "neterr", data |-> <<>>] }

NextPair ==
  \/ \E v \in PairInputs :
       href = "" /\ (Runs("loc") \/ v # <<>>) /\ LocInput(v)
  \/ inflight["loc"] = <<>> /\ LocDispatch
  \/ \E resp \in PairResponses :
       /\ inflight["loc"] # <<>> /\ (Runs("loc") \/ resp.kind = "ok")
       /\ LocResponse(1, resp)
  \/ href = "" /\ LocMousedown(1)
  \/ UserAt("loc") /\ LocReset
  \/ \E v \in PairInputs :
       href = "" /\ (Runs("ppl") \/ v # <<>>) /\ PplInput(v)
  \/ inflight["ppl"] = <<>> /\ PplDispatch
  \/ \E resp \in PairResponses :
       /\ inflight["ppl"] # <<>> /\ (Runs("ppl") \/ resp.kind = "ok")
       /\ PplResponse(1, resp)
  \/ href = "" /\ PplMousedown(1)
  \/ \E id \in PersonIds : UserAt("ppl") /\ PplRemove(id)
  \/ UserAt("ppl") /\ PplReset
  \/ \E w \in W : UserAt(w) /\ Blur(w)
  \/ \E w \in W : Runs(w) /\ BlurClear(w)
  \/ Tick

SpecPair == Init /\ [][NextPair]_vars

\* ----------------------------------------------------------------- feeds
\* The grids as loadFeed and renderPhotoGrid see them: the requests in flight,
\* what each grid shows, and the card like button each rendering brings.
FeedNow ==
  [inflight |-> feedInflight, shown |-> gridShown, gen |-> cardGen,
   dis |-> likeDisabled]

\* a rendering of grid g makes new card buttons: a number no request of a
\* former button of g still in flight carries
FreshGen(g) ==
  CHOOSE n \in 1..(Len(likeInflight) + 1) :
    /\ \A i \in 1..Len(likeInflight) :
         likeInflight[i].btn = g => likeInflight[i].gen # n
    /\ \A m \in 1..(n - 1) :
         \E i \in 1..Len(likeInflight) :
           likeInflight[i].btn = g /\ likeInflight[i].gen = m

\* loadFeed(query, {containerId: g}) up to `await fetch`: nothing without the
\* container; else the loading text replaces the cards and the request leaves
LoadFeedStart(st, g, query) ==
  IF g \notin grids THEN st
  ELSE [inflight |-> Append(st.inflight,
                            [grid |-> g, q |-> query, overtaken |-> FALSE]),
        shown |-> [st.shown EXCEPT ![g] = [state |-> "loading", q |-> query]],
        gen |-> [st.gen EXCEPT ![g] = 0],
        dis |-> [st.dis EXCEPT ![g] = FALSE]]

\* refreshFeeds(query)
refreshFeeds(st, query) ==
  LoadFeedStart(LoadFeedStart(st, "photo-grid", query),
                "dashboard-photo-grid", query)

\* what loadFeed leaves in the grid for a response
loadFeedSettle(resp) ==
  IF resp \in {"status", "neterr", "badjson"} THEN "error"
  ELSE IF resp = "ok" THEN "photos"
  ELSE "empty"

\* the feed part of init()'s switch for page p
BootFeeds(p, st, initialQuery) ==
  IF p = "feed" THEN LoadFeedStart(st, "photo-grid", initialQuery)
  ELSE IF p = "creator-dashboard" THEN refreshFeeds(st, initialQuery)
  ELSE st

\* input handler of bindSearch
SearchInput(v) ==
  LET pending == ClearTimeout(searchTimers, debounceHandle)
      h == FreshHandle(pending)
  IN /\ "bindSearch" \in bound
     /\ v # searchVal
     /\ searchVal' = v
     /\ searchTimers' = pending \cup {[id |-> h, remaining |-> SearchDelay]}
     /\ debounceHandle' = h
     /\ searched' = TRUE
     /\ last' = [op |-> "other", w |-> "-", n |-> 0]
     /\ UNCHANGED << live, pageVars, formVars, sessionVars, widgetVars, likeVars,
                     grids, feedInflight, gridShown, urlQuery, hrefQuery >>

\* TickMs milliseconds pass for bindSearch's timer
SearchTick ==
  /\ \E t \in searchTimers : t.remaining > 0
  /\ searchTimers' =
       { [t EXCEPT !.remaining = Max(0, t.remaining - TickMs)] : t \in searchTimers }
  /\ last' = [op |-> "other", w |-> "-", n |-> 0]
  /\ UNCHANGED << live, pageVars, formVars, sessionVars, widgetVars, likeVars,
                  grids, searchVal, debounceHandle, feedInflight, gridShown,
                  searched, urlQuery, hrefQuery >>

\* the timer callback of bindSearch
SearchFire ==
  \E t \in searchTimers :
    LET value == Trim(searchVal)
        hasMainFeed == "photo-grid" \in grids
        hasDashboardFeed == "dashboard-photo-grid" \in grids
        st == refreshFeeds(FeedNow, value)
    IN /\ t.remaining = 0
       /\ searchTimers' = searchTimers \ {t}
       /\ IF ~hasMainFeed /\ ~hasDashboardFeed
          THEN /\ href' = IF Len(value) > 0 THEN "index.html?q" ELSE "index.html"
               /\ hrefQuery' = value
               /\ UNCHANGED << feedInflight, gridShown, cardGen, likeDisabled >>
          ELSE /\ Len(st.inflight) <= MaxFeeds
               /\ feedInflight' = st.inflight
               /\ gridShown' = st.shown
               /\ cardGen' = st.gen
               /\ likeDisabled' = st.dis
               /\ UNCHANGED << href, hrefQuery >>
       /\ last' = [op |-> "search", w |-> "-", n |-> 0]
       /\ UNCHANGED << live, pageVars, formVars, widgetVars, store, currentUser,
                       tornDown, grids, searchVal, debounceHandle, searched,
                       urlQuery, likeInflight, canInteract, photoLoading >>

\* click handler of #dashboard-refresh
DashboardRefresh ==
  LET st == refreshFeeds(FeedNow, Trim(searchVal))
  IN /\ page = "creator-dashboard"
     /\ "refreshFeeds" \in bound
     /\ Len(st.inflight) <= MaxFeeds
     /\ feedInflight' = st.inflight
     /\ gridShown' = st.shown
     /\ cardGen' = st.gen
     /\ likeDisabled' = st.dis
     /\ last' = [op |-> "other", w |-> "-", n |-> 0]
     /\ UNCHANGED << live, pageVars, formVars, sessionVars, widgetVars, grids,
                     searchVal, debounceHandle, searchTimers, searched, urlQuery,
                     hrefQuery, likeInflight, canInteract, photoLoading >>

\* the response to the i-th loadFeed request in flight arrives: the rest of
\* loadFeed, with renderPhotoGrid and bindCardLikeButtons
FeedResponse(i, resp) ==
  LET r == feedInflight[i]
      state == loadFeedSettle(resp)
  IN /\ i \in 1..Len(feedInflight)
     /\ feedInflight' = Resolve(feedInflight, i)
     /\ gridShown' = [gridShown EXCEPT ![r.grid] = [state |-> state, q |-> r.q]]
     /\ cardGen' = [cardGen EXCEPT ![r.grid] =
          IF state = "photos" THEN FreshGen(r.grid) ELSE 0]
     /\ likeDisabled' = [likeDisabled EXCEPT ![r.grid] = FALSE]
     /\ last' = [op |-> IF r.overtaken THEN "feed-late" ELSE "feed",
                 w |-> "-", n |-> 0]
     /\ UNCHANGED << live, pageVars, formVars, sessionVars, widgetVars, grids,
                     searchVal, debounceHandle, searchTimers, searched, urlQuery,
                     hrefQuery, likeInflight, canInteract, photoLoading >>

\* The people selector with several people to choose from: one text, one
\* query in flight, answers of up to MaxPicks people (a person may come
\* twice in an answer), commits of any rendered row, removal of any chip,
\* and reset.
ChipIds == {2, 3, 4, 5}

PickResponses == { [kind |-> "ok", data |-> d] : d \in SeqsUpTo(ChipIds, MaxPicks) }

NextPeople ==
  \/ UserAt("ppl") /\ PplInput(<<"a", "b", "c">>)
  \/ Runs("ppl") /\ inflight["ppl"] = <<>> /\ PplDispatch
  \/ \E resp \in PickResponses :
       Runs("ppl") /\ inflight["ppl"] # <<>> /\ PplResponse(1, resp)
  \/ \E i \in 1..MaxPicks : UserAt("ppl") /\ PplMousedown(i)
  \/ \E id \in ChipIds : UserAt("ppl") /\ PplRemove(id)
  \/ UserAt("ppl") /\ PplReset
  \/ Runs("ppl") /\ Tick

SpecPeople == Init /\ [][NextPeople]_vars

\* ------------------------------------------------------ page and session
\* hydrateSession from the response to /auth/me on: the session it leaves and
\* what it returns
HydrateSettleNoCatch(resp, st, h) ==
  IF resp.kind = "ok"
  THEN [store |-> [st EXCEPT ![RoleKey] = "set", ![NameKey] = "set", ![UserIdKey] = "id"],
        user |-> SelfId, href |-> h, result |-> SelfId, failed |-> FALSE]
  ELSE IF resp.kind = "unauth"
  THEN [store |-> LogoutStore(st), user |-> NoUser, href |-> "login.html",
        result |-> NotReturned, failed |-> TRUE]
  ELSE [store |-> st, user |-> SelfId, href |-> h, result |-> NotReturned,
        failed |-> TRUE]

HydrateSettle(resp, st, h) ==
  IF resp.kind = "ok"
  THEN \* 1194-1200: role, name and user id stored, currentUser = data
       [store |-> [st EXCEPT ![RoleKey] = "set", ![NameKey] = "set", ![UserIdKey] = "id"],
        user |-> SelfId, href |-> h, result |-> SelfId, failed |-> FALSE]
  ELSE \* a 401 (fetchWithAuth: logout, redirect, reject), a non-OK status, a
       \* network error, an unparsable or null body: the catch block
       [store |-> LogoutStore(st), user |-> NoUser, href |-> "login.html",
        result |-> NoUser, failed |-> TRUE]

InitContinueBindsFirst(hasToken, p, h, b) ==
  IF ~hasToken /\ p \notin PublicPages
  THEN [href |-> "login.html", bound |-> b \cup Binders(p)]
  ELSE IF hasToken /\ p \in PublicPages
  THEN [href |-> "index.html", bound |-> b \cup Binders(p)]
  ELSE [href |-> h, bound |-> b \cup Binders(p)]

\* init() after `await hydrateSession()`: the guard and the page's binders
InitContinue(hasToken, p, h, b) ==
  IF ~hasToken /\ p \notin PublicPages
  THEN [href |-> "login.html", bound |-> b]
  ELSE IF hasToken /\ p \in PublicPages
  THEN [href |-> "index.html", bound |-> b]
  ELSE [href |-> h, bound |-> b \cup Binders(p)]

\* the browser loads the document of page p: the one window.location.href
\* names, or any page the user opens.  localStorage is all that is kept.
Load(p) ==
  /\ href # "" => p = PageOf(href)
  /\ page' = p
  /\ boot' = "loading"
  /\ bound' = {}
  /\ authInflight' = {}
  /\ me' = NotReturned
  /\ currentUser' = NoUser
  /\ href' = ""
  /\ inputVal' = [w \in W |-> <<>>]
  /\ selectedValue' = <<>>
  /\ selected' = <<>>
  /\ timeout' = [w \in W |-> 0]
  /\ timers' = [w \in W |-> {}]
  /\ blurTimers' = [w \in W |-> {}]
  /\ results' = [w \in W |-> <<>>]
  /\ rendered' = [w \in W |-> <<>>]
  /\ inflight' = [w \in W |-> <<>>]
  /\ shown' = [w \in W |-> NoShown]
  /\ armed' = [w \in W |-> NoText]
  /\ elapsed' = [w \in W |-> 0]
  /\ burst' = [w \in W |-> 0]
  /\ quiet' = [w \in W |-> FALSE]
  /\ rejected' = [w \in W |-> FALSE]
  /\ disabled' = [f \in F |-> FALSE]
  /\ subs' = [f \in F |-> <<>>]
  /\ feedback' = [f \in F |-> ""]
  /\ draft' = [f \in F |-> "empty"]
  /\ modalOpen' = FALSE
  /\ grids' = GridsOf(p)
  /\ searchVal' = <<>>
  /\ debounceHandle' = 0
  /\ searchTimers' = {}
  /\ feedInflight' = <<>>
  /\ gridShown' = [g \in Grids |-> NoFeed]
  /\ searched' = FALSE
  /\ urlQuery' \in (IF href = "index.html?q" THEN {hrefQuery}
                    ELSE IF href # "" THEN { <<>> } ELSE UrlQueries)
  /\ hrefQuery' = <<>>
  /\ likeInflight' = <<>>
  /\ likeDisabled' = [b \in LikeButtons |-> FALSE]
  /\ cardGen' = [g \in Grids |-> 0]
  /\ canInteract' = FALSE
  /\ photoLoading' = FALSE
  /\ last' = [op |-> "load", w |-> "-", n |-> 0]
  /\ UNCHANGED << live, store, tornDown >>

\* init() up to `await hydrateSession()`; with no token stored hydrateSession
\* returns at once and init() runs to its end
InitPage ==
  /\ boot = "loading"
  /\ IF getToken = NoItem
     THEN LET c == InitContinue(FALSE, page, href, {"bindLogoutButtons"})
          IN /\ boot' = "done"
             /\ me' = NoUser
             /\ href' = c.href
             /\ bound' = c.bound
             /\ UNCHANGED << store, currentUser, authInflight >>
     ELSE /\ boot' = "hydrating"
          /\ bound' = {"bindLogoutButtons"}
          /\ authInflight' = authInflight \cup
               {[api |-> "me", bearer |-> FetchWithAuthRequest(<<>>).bearer]}
          /\ UNCHANGED << store, currentUser, href, me >>
  /\ last' = [op |-> "init", w |-> "-", n |-> 0]
  /\ UNCHANGED << live, feedVars, likeVars, formVars, page, tornDown, widgetVars >>

\* the response to /auth/me arrives: the rest of fetchWithAuth and of
\* hydrateSession, then the rest of init()
HydrateResponse(resp) ==
  LET s == HydrateSettle(resp, store, href)
      hasToken == s.store[TokenKey] # NoItem
      c == InitContinue(hasToken, page, s.href, bound)
      loads == IF c.bound # bound /\ page \in LoaderPages
               THEN {[api |-> "page", bearer |-> FetchWithAuthRequest(<<>>).bearer]}
               ELSE {}
      initialQuery == Trim(urlQuery)
      st == IF c.bound # bound THEN BootFeeds(page, FeedNow, initialQuery) ELSE FeedNow
  IN /\ boot = "hydrating"
     /\ \E r \in authInflight : r.api = "me"
     /\ store' = s.store
     /\ currentUser' = s.user
     /\ me' = s.result
     /\ href' = c.href
     /\ bound' = c.bound
     /\ boot' = "done"
     /\ authInflight' = { r \in authInflight : r.api # "me" } \cup loads
     /\ tornDown' = (tornDown \/ s.failed)
     /\ last' = [op |-> IF s.failed THEN "hydrate-failed" ELSE "hydrated",
                 w |-> "-", n |-> 0]
     /\ searchVal' = IF c.bound # bound /\ page \in {"feed", "creator-dashboard"}
                        /\ initialQuery # <<>>
                     THEN initialQuery ELSE searchVal
     /\ feedInflight' = st.inflight
     /\ gridShown' = st.shown
     /\ cardGen' = st.gen
     /\ likeDisabled' = st.dis
     /\ photoLoading' = (photoLoading \/ (c.bound # bound /\ page = "photo-detail"))
     /\ UNCHANGED << live, formVars, page, widgetVars, grids, debounceHandle,
                     searchTimers, searched, urlQuery, hrefQuery, likeInflight,
                     canInteract >>

\* the response to a loader's fetchWithAuth request arrives
LoaderResponse(resp) ==
  /\ \E r \in authInflight : r.api = "page"
  /\ authInflight' = { r \in authInflight : r.api # "page" }
  /\ IF FetchWithAuthUnauthorized(resp)
     THEN /\ store' = LogoutStore(store)
          /\ currentUser' = NoUser
          /\ href' = "login.html"
          /\ tornDown' = TRUE
     ELSE UNCHANGED sessionVars
  /\ last' = [op |-> IF FetchWithAuthUnauthorized(resp) THEN "unauth" ELSE "other",
              w |-> "-", n |-> 0]
  /\ UNCHANGED << live, feedVars, likeVars, formVars, page, boot, bound, me, widgetVars >>

\* submit handler of the login form, up to `await fetch(.../auth/login)`
LoginSubmit ==
  /\ "bindLoginForm" \in bound
  /\ ~\E r \in authInflight : r.api = "login"
  /\ authInflight' = authInflight \cup {[api |-> "login", bearer |-> FALSE]}
  /\ last' = [op |-> "other", w |-> "-", n |-> 0]
  /\ UNCHANGED << live, feedVars, likeVars, formVars, page, boot, bound, me, sessionVars, widgetVars >>

\* the rest of the login form's submit handler
LoginResponse(resp) ==
  /\ \E r \in authInflight : r.api = "login"
  /\ authInflight' = { r \in authInflight : r.api # "login" }
  /\ IF resp.kind = "ok"
     THEN /\ store' = [k \in StoreKeys |-> IF k = UserIdKey THEN "id" ELSE "set"]
          /\ currentUser' = SelfId
          /\ href' = "index.html"
          /\ tornDown' = FALSE
          /\ last' = [op |-> "login", w |-> "-", n |-> 0]
     ELSE /\ UNCHANGED sessionVars
          /\ last' = [op |-> "other", w |-> "-", n |-> 0]
  /\ UNCHANGED << live, feedVars, likeVars, formVars, page, boot, bound, me, widgetVars >>

\* The page from load to unload: init, the logout button, the login form, and
\* the people selector of the create-post modal as a caller of fetchWithAuth
\* (one text, one query in flight, an answer or a 401).
AuthResponses == { [kind |-> k, data |-> <<>>] : k \in AuthKinds }

NextPage ==
  \/ \E p \in Pages : Load(p) /\ urlQuery' = <<>>
  \/ InitPage
  \/ \E resp \in AuthResponses : HydrateResponse(resp)
  \/ \E resp \in AuthResponses : LoaderResponse(resp)
  \/ "bindLogoutButtons" \in bound /\ href = "" /\ Logout
  \/ href = "" /\ LoginSubmit
  \/ \E resp \in AuthResponses : LoginResponse(resp)
  \/ "bindCreatePostModal" \in bound /\ href = "" /\ PplInput(<<"a", "b", "c">>)
  \/ inflight["ppl"] = <<>> /\ PplDispatch
  \/ \E resp \in PairResponses \cup {[kind |-> "unauth", data |-> <<>>]} :
       inflight["ppl"] # <<>> /\ PplResponse(1, resp)
  \/ Tick

SpecPage == Init /\ [][NextPage]_vars

\* The search box and the feeds: a page with a feed grid (the feed page, the
\* creator dashboard) or without one (the profile page) is loaded and
\* hydrated, the user types into #search-input and clicks the dashboard's
\* refresh button, and the feed requests are answered in any order.
SearchPages == {"feed", "creator-dashboard", "profile"}

NextSearch ==
  \/ \E p \in SearchPages : Load(p)
  \/ InitPage
  \/ HydrateResponse([kind |-> "ok", data |-> <<>>])
  \/ \E v \in SearchInputs : href = "" /\ SearchInput(v)
  \/ SearchTick
  \/ SearchFire
  \/ href = "" /\ DashboardRefresh
  \/ \E i \in 1..MaxFeeds, resp \in FeedKinds : FeedResponse(i, resp)

SpecSearch == Init /\ [][NextSearch]_vars

\* -------------------------------------------------------- photo forms
\* what can come back from /photos/upload-image and from POST /photos
UploadResponses ==
  { [kind |-> "ok", url |-> u] : u \in Urls }
  \cup { [kind |-> k, url |-> NoUrl] :
           k \in {"nourl", "status", "unauth", "neterr", "badjson"} }

CreateResponses ==
  { [kind |-> k, url |-> NoUrl] : k \in {"ok", "status", "unauth", "neterr", "badjson"} }

UploadImageFileNoUrlCheck(resp) ==
  CASE resp.kind = "unauth" -> [threw |-> TRUE, url |-> NoUrl, message |-> "Unauthorized"]
    [] resp.kind = "neterr" -> [threw |-> TRUE, url |-> NoUrl, message |-> "Failed to fetch"]
    [] resp.kind \in {"status", "badjson"} ->
         [threw |-> TRUE, url |-> NoUrl, message |-> "Image upload failed"]
    [] OTHER -> [threw |-> FALSE, url |-> resp.url, message |-> ""]

\* uploadImageFile from the response on: the URL it returns or what it throws
uploadImageFile(resp) ==
  CASE resp.kind = "unauth" -> [threw |-> TRUE, url |-> NoUrl, message |-> "Unauthorized"]
    [] resp.kind = "neterr" -> [threw |-> TRUE, url |-> NoUrl, message |-> "Failed to fetch"]
    [] resp.kind \in {"status", "badjson", "nourl"} ->
         [threw |-> TRUE, url |-> NoUrl, message |-> "Image upload failed"]
    [] OTHER -> [threw |-> FALSE, url |-> resp.url, message |-> ""]

\* createPhotoRecord from the response on
createPhotoRecord(resp) ==
  CASE resp.kind = "unauth" -> [threw |-> TRUE, message |-> "Unauthorized"]
    [] resp.kind = "neterr" -> [threw |-> TRUE, message |-> "Failed to fetch"]
    [] resp.kind = "badjson" ->
         [threw |-> TRUE, message |-> "Unexpected response from server"]
    [] resp.kind = "status" -> [threw |-> TRUE, message |-> "Photo creation failed"]
    [] OTHER -> [threw |-> FALSE, message |-> ""]

\* locationAutocomplete.reset() and peopleSelector.reset() of the modal
ResetWidgets ==
  /\ selectedValue' = <<>>
  /\ selected' = <<>>
  /\ inputVal' = [w \in W |-> <<>>]
  /\ results' = [w \in W |-> <<>>]
  /\ rendered' = [w \in W |-> <<>>]
  /\ shown' = [w \in W |-> NoShown]
  /\ quiet' = [w \in W |-> TRUE]
  /\ UNCHANGED << timeout, timers, blurTimers, inflight, armed, elapsed, burst,
                  rejected >>

\* fetchWithAuth's 401 branch, for the response to a form's request
FormTeardown(resp) ==
  IF FetchWithAuthUnauthorized(resp)
  THEN /\ store' = LogoutStore(store)
       /\ currentUser' = NoUser
       /\ href' = "login.html"
       /\ tornDown' = TRUE
  ELSE UNCHANGED sessionVars

\* the form f is on the page and the user can reach it
Usable(f) ==
  /\ BinderOf(f) \in bound
  /\ href = ""
  /\ f = "modal" => modalOpen

\* the user chooses a file and fills in the fields of form f
FormFill(f) ==
  /\ Usable(f)
  /\ draft' = [draft EXCEPT ![f] = "filled"]
  /\ subs' = [subs EXCEPT ![f] =
       [i \in 1..Len(subs[f]) |-> [subs[f][i] EXCEPT !.edited = TRUE]]]
  /\ last' = [op |-> "other", w |-> "-", n |-> 0]
  /\ UNCHANGED << live, feedVars, likeVars, pageVars, sessionVars, widgetVars, disabled, feedback,
                  modalOpen >>

\* openModal, bound to the triggers
OpenModal ==
  /\ "bindCreatePostModal" \in bound
  /\ href = ""
  /\ ~modalOpen
  /\ store[RoleKey] # NoItem
  /\ feedback' = [feedback EXCEPT !["modal"] = ""]
  /\ modalOpen' = TRUE
  /\ last' = [op |-> "other", w |-> "-", n |-> 0]
  /\ UNCHANGED << live, feedVars, likeVars, pageVars, sessionVars, widgetVars, disabled, subs, draft >>

\* closeModal, bound to the close button, the cancel button and a click on
\* the backdrop: the modal is hidden and resetForm runs
CloseModal ==
  /\ Usable("modal")
  /\ modalOpen' = FALSE
  /\ feedback' = [feedback EXCEPT !["modal"] = ""]
  /\ draft' = [draft EXCEPT !["modal"] = "empty"]
  /\ disabled' = [disabled EXCEPT !["modal"] = FALSE]
  /\ ResetWidgets
  /\ last' = [op |-> "close", w |-> "-", n |-> 0]
  /\ UNCHANGED << live, feedVars, likeVars, pageVars, sessionVars, subs >>

\* submit handler of form f, up to the `await fetchWithAuth` of
\* uploadImageFile; a disabled submit button submits nothing
Submit(f) ==
  /\ Usable(f)
  /\ ~disabled[f]
  /\ IF draft[f] = "empty"
     THEN /\ feedback' = [feedback EXCEPT ![f] = "Please select a photo."]
          /\ UNCHANGED << disabled, subs >>
     ELSE /\ Len(subs[f]) < MaxSubs
          /\ feedback' = [feedback EXCEPT ![f] = ""]
          /\ disabled' = [disabled EXCEPT ![f] = TRUE]
          /\ subs' = [subs EXCEPT ![f] = Append(subs[f],
               [step |-> "upload", url |-> NoUrl, edited |-> FALSE,
                bearer |-> FetchWithAuthRequest(<<>>).bearer])]
  /\ last' = [op |-> "other", w |-> "-", n |-> 0]
  /\ UNCHANGED << live, feedVars, likeVars, pageVars, sessionVars, widgetVars, draft, modalOpen >>

\* the catch and finally blocks of the submit handler
SubmitFailed(f, i, message) ==
  /\ subs' = [subs EXCEPT ![f] = RemoveAt(subs[f], i)]
  /\ feedback' = [feedback EXCEPT ![f] = message]
  /\ disabled' = [disabled EXCEPT ![f] = FALSE]
  /\ last' = [op |-> "submit-failed", w |-> "-", n |-> 0]
  /\ UNCHANGED << widgetVars, draft, modalOpen, authInflight >>

\* the response to the image upload of submission i of form f arrives: the
\* rest of uploadImageFile, then createPhotoRecord up to its await
UploadResponse(f, i, resp) ==
  LET out == uploadImageFile(resp)
  IN /\ i \in 1..Len(subs[f])
     /\ subs[f][i].step = "upload"
     /\ FormTeardown(resp)
     /\ IF out.threw
        THEN SubmitFailed(f, i, out.message)
        ELSE /\ subs' = [subs EXCEPT ![f][i] =
                  [step |-> "create", url |-> out.url, edited |-> subs[f][i].edited,
                   bearer |-> FetchWithAuthRequest(<<>>).bearer]]
             /\ last' = [op |-> "uploaded", w |-> "-", n |-> out.url]
             /\ UNCHANGED << widgetVars, draft, modalOpen, authInflight, feedback,
                             disabled >>
     /\ UNCHANGED << live, feedVars, likeVars, page, boot, bound, me >>

\* the response to POST /photos of submission i of form f arrives: the rest
\* of createPhotoRecord and of the submit handler
CreateResponse(f, i, resp) ==
  LET out == createPhotoRecord(resp)
      discards == IF subs[f][i].edited /\ draft[f] = "filled" THEN 1 ELSE 0
      reloads == IF f = "upload" \/ page = "creator-dashboard"
                 THEN {[api |-> "page", bearer |-> FetchWithAuthRequest(<<>>).bearer]}
                 ELSE {}
      \* 933: refreshFeeds(); 1052-1054: refreshFeeds(currentQuery)
      st == refreshFeeds(FeedNow, IF f = "upload" THEN <<>> ELSE Trim(searchVal))
  IN /\ i \in 1..Len(subs[f])
     /\ subs[f][i].step = "create"
     /\ FormTeardown(resp)
     /\ IF out.threw
        THEN /\ SubmitFailed(f, i, out.message)
             /\ UNCHANGED << feedInflight, gridShown, cardGen, likeDisabled >>
        ELSE /\ Len(st.inflight) <= MaxFeeds
             /\ feedInflight' = st.inflight
             /\ gridShown' = st.shown
             /\ cardGen' = st.gen
             /\ likeDisabled' = st.dis
             /\ subs' = [subs EXCEPT ![f] = RemoveAt(subs[f], i)]
             /\ draft' = [draft EXCEPT ![f] = "empty"]
             /\ disabled' = [disabled EXCEPT ![f] = FALSE]
             /\ authInflight' = authInflight \cup reloads
             /\ last' = [op |-> "published", w |-> "-", n |-> discards]
             /\ IF f = "upload"
                THEN /\ feedback' = [feedback EXCEPT ![f] = "Photo published successfully."]
                     /\ UNCHANGED << widgetVars, modalOpen >>
                ELSE /\ feedback' = [feedback EXCEPT ![f] = ""]
                     /\ modalOpen' = FALSE
                     /\ ResetWidgets
     /\ UNCHANGED << live, page, boot, bound, me, grids, searchVal,
                     debounceHandle, searchTimers, searched, urlQuery, hrefQuery,
                     likeInflight, canInteract, photoLoading >>

\* The photo forms, one per behaviour: the modal's form on the feed page, the
\* upload form on the creator dashboard.  The page is loaded and hydrated,
\* the form is filled in, submitted and answered, the modal is opened and
\* closed, and the modal's location widget is typed into and answered.
Follows(f) == page = (IF f = "upload" THEN "creator-dashboard" ELSE "feed")

NextForm ==
  \/ \E p \in {"creator-dashboard", "feed"} : Load(p) /\ urlQuery' = <<>>
  \/ InitPage
  \/ \E resp \in { r \in AuthResponses : r.kind \in {"ok", "status"} } :
       HydrateResponse(resp)
  \/ \E resp \in { r \in AuthResponses : r.kind \in {"ok", "unauth"} } :
       LoaderResponse(resp)
  \/ \E f \in F : Follows(f) /\ FormFill(f)
  \/ Follows("modal") /\ OpenModal
  \/ Follows("modal") /\ CloseModal
  \/ \E f \in F : Follows(f) /\ Submit(f)
  \/ \E f \in F, i \in 1..MaxSubs, resp \in UploadResponses : UploadResponse(f, i, resp)
  \/ \E f \in F, i \in 1..MaxSubs, resp \in CreateResponses : CreateResponse(f, i, resp)
  \/ Usable("modal") /\ Follows("modal") /\ LocInput(<<"a", "b", "c">>)
  \/ inflight["loc"] = <<>> /\ LocDispatch
  \/ inflight["loc"] # <<>> /\ LocResponse(1, [kind |-> "ok", data |-> <<2>>])
  \/ Usable("modal") /\ Follows("modal") /\ LocMousedown(1)
  \/ Tick

SpecForm == Init /\ [][NextForm]_vars

\* -------------------------------------------------------- like buttons
\* what can come back from GET /photos/:id and from POST /photos/:id/like
PhotoKinds == {"ok", "status", "neterr", "badjson", "null"}
LikeResponses ==
  { [kind |-> k, data |-> <<>>] : k \in {"ok", "status", "unauth", "neterr", "badjson"} }

\* the request of a like button is the one of an element still in the
\* document: #like-btn, or the card button of the grid's current rendering
Attached(r) == r.btn = "like-btn" \/ r.gen = cardGen[r.btn]

\* the response to loadPhotoDetail's request arrives: the rest of
\* loadPhotoDetail with bindLikeButton.  The store keeps that a role is set;
\* whether it is 'consumer' or 'creator' is `known`.
PhotoResponse(resp, known) ==
  LET can == getToken # NoItem /\ store[RoleKey] # NoItem /\ known
  IN /\ photoLoading
     /\ photoLoading' = FALSE
     /\ IF resp = "ok"
        THEN /\ bound' = bound \cup {"bindLikeButton", "bindCommentForm"}
             /\ canInteract' = can
             /\ likeDisabled' = [likeDisabled EXCEPT !["like-btn"] = ~can]
        ELSE UNCHANGED << bound, canInteract, likeDisabled >>
     /\ last' = [op |-> "other", w |-> "-", n |-> 0]
     /\ UNCHANGED << live, feedVars, formVars, sessionVars, widgetVars, page, boot,
                     authInflight, me, likeInflight, cardGen >>

CardLikeNoDisable(g) ==
  /\ cardGen[g] > 0
  /\ ~likeDisabled[g]
  /\ IF getToken = NoItem
     THEN /\ href' = "login.html"
          /\ UNCHANGED << likeDisabled, likeInflight >>
     ELSE /\ Len(likeInflight) < MaxLikes
          /\ likeInflight' = Append(likeInflight,
               [btn |-> g, gen |-> cardGen[g],
                bearer |-> FetchWithAuthRequest(<<>>).bearer])
          /\ UNCHANGED << href, likeDisabled >>
  /\ last' = [op |-> "like-click", w |-> g, n |-> cardGen[g]]
  /\ UNCHANGED << live, feedVars, formVars, pageVars, widgetVars, store,
                  currentUser, tornDown, cardGen, canInteract, photoLoading >>

\* click handler of the card like button of grid g, up to `await
\* fetchWithAuth`; a disabled button gets no click
CardLike(g) ==
  /\ cardGen[g] > 0
  /\ ~likeDisabled[g]
  /\ IF getToken = NoItem
     THEN /\ href' = "login.html"
          /\ UNCHANGED << likeDisabled, likeInflight >>
     ELSE /\ Len(likeInflight) < MaxLikes
          /\ likeDisabled' = [likeDisabled EXCEPT ![g] = TRUE]
          /\ likeInflight' = Append(likeInflight,
               [btn |-> g, gen |-> cardGen[g],
                bearer |-> FetchWithAuthRequest(<<>>).bearer])
          /\ UNCHANGED href
  /\ last' = [op |-> "like-click", w |-> g, n |-> cardGen[g]]
  /\ UNCHANGED << live, feedVars, formVars, pageVars, widgetVars, store,
                  currentUser, tornDown, cardGen, canInteract, photoLoading >>

\* click handler of #like-btn, up to `await fetchWithAuth`
DetailLike ==
  /\ "bindLikeButton" \in bound
  /\ ~likeDisabled["like-btn"]
  /\ IF ~canInteract
     THEN UNCHANGED << likeDisabled, likeInflight >>
     ELSE /\ Len(likeInflight) < MaxLikes
          /\ likeDisabled' = [likeDisabled EXCEPT !["like-btn"] = TRUE]
          /\ likeInflight' = Append(likeInflight,
               [btn |-> "like-btn", gen |-> 0,
                bearer |-> FetchWithAuthRequest(<<>>).bearer])
  /\ last' = [op |-> "like-click", w |-> "like-btn", n |-> 0]
  /\ UNCHANGED << live, feedVars, formVars, pageVars, sessionVars, widgetVars,
                  cardGen, canInteract, photoLoading >>

\* the response to the i-th like-toggle request in flight arrives: the rest
\* of fetchWithAuth and of the click handler, with its catch and finally
LikeResponse(i, resp) ==
  LET r == likeInflight[i]
  IN /\ i \in 1..Len(likeInflight)
     /\ FormTeardown(resp)
     /\ likeInflight' = RemoveAt(likeInflight, i)
     /\ likeDisabled' = IF Attached(r)
                        THEN [likeDisabled EXCEPT ![r.btn] = FALSE]
                        ELSE likeDisabled
     /\ last' = [op |-> IF resp.kind = "ok" THEN "like-settled" ELSE "like-failed",
                 w |-> r.btn, n |-> r.gen]
     /\ UNCHANGED << live, feedVars, formVars, pageVars, widgetVars, cardGen,
                     canInteract, photoLoading >>

\* The like buttons: the feed page, the creator dashboard and the photo page
\* are loaded and hydrated, the feed is rendered and rendered again (the
\* dashboard's refresh button), the buttons are clicked and the requests are
\* answered in any order.  A click can also come after a 401 or a logout has
\* removed the token, before the document is replaced.
LikePages == {"feed", "creator-dashboard", "photo-detail"}

NextLike ==
  \/ \E p \in LikePages : Load(p) /\ urlQuery' = <<>>
  \/ InitPage
  \/ HydrateResponse([kind |-> "ok", data |-> <<>>])
  \/ \E resp \in PhotoKinds, known \in BOOLEAN : PhotoResponse(resp, known)
  \/ href = "" /\ DashboardRefresh
  \/ \E resp \in {"ok", "status"} : FeedResponse(1, resp)
  \/ "bindLogoutButtons" \in bound /\ href = "" /\ Logout
  \/ \E g \in Grids : CardLike(g)
  \/ DetailLike
  \/ \E i \in 1..MaxLikes, resp \in LikeResponses : LikeResponse(i, resp)

SpecLike == Init /\ [][NextLike]_vars

\* ------------------------------------------------------------- claims
Arrived(w) == Len(inflight'[w]) < Len(inflight[w])
Dispatched(w) == Len(inflight'[w]) > Len(inflight[w])

\* C1: when an earlier-dispatched query resolves after a later-dispatched
\* one, the rendered list and results are never the earlier query's: a
\* rendered list never comes from a response that a later-dispatched query's
\* response had overtaken.
C1_LaterDispatchWins ==
  \A w \in W :
    (rendered[w] # <<>> \/ results[w] # <<>>) => ~shown[w].overtaken

\* C2: a response whose query text is not the input's current trimmed value
\* is ignored: no response arrival puts a list on screen that comes from a
\* query other than the input's trimmed value.
C2_StaleResponseIgnored ==
  [][\A w \in W :
       (Arrived(w) /\ shown'[w] # shown[w] /\ rendered'[w] # <<>>)
         => shown'[w].q = Trim(inputVal'[w])]_vars

\* C3: while the input's trimmed value has fewer than MinQueryLen characters
\* the rendered list and results are empty, and an input event that leaves
\* fewer than MinQueryLen characters leaves no timer pending.
C3_ShortInputShowsNothing ==
  \A w \in W :
    /\ Len(Trim(inputVal[w])) < MinQueryLen
         => rendered[w] = <<>> /\ results[w] = <<>>
    /\ (armed[w] # NoText /\ Len(armed[w]) < MinQueryLen) => timers[w] = {}

\* the debounce delays the claim states
ClaimedDelay(w) == IF w = "loc" THEN 250 ELSE 200

\* C4: a query is dispatched only for the last input event, once, no sooner
\* than the debounce delay after that event, and with that event's trimmed
\* text, which has at least MinQueryLen characters; until then that event's
\* timer stays pending.
C4_DebounceCoalesces ==
  [][\A w \in W :
       /\ Dispatched(w) =>
            LET r == inflight'[w][Len(inflight'[w])]
            IN /\ r.q = armed[w]
               /\ Len(r.q) >= MinQueryLen
               /\ elapsed[w] >= ClaimedDelay(w)
       /\ (armed'[w] # NoText /\ Len(armed'[w]) >= MinQueryLen) =>
            \E t \in timers'[w] : t.value = armed'[w]]_vars

\* a query was dispatched for the last of a burst of input events
C4_Witness ==
  /\ last.op = "dispatch" /\ last.n >= 2
  /\ \E w \in W : last.w = w /\ inflight[w] # <<>>

\* C5: the selected collection of the people selector never holds two
\* entries with the same id, nor the id of the current user.
C5_SelectedUniqueNotSelf ==
  /\ \A i, j \in 1..Len(selected) : i # j => selected[i] # selected[j]
  /\ currentUser # NoUser => currentUser \notin Range(selected)

\* two people were committed, one after the other
C5_Witness == Len(selected) = 2 /\ currentUser = SelfId

\* C6: right after reset() the widget is as constructed: empty input, empty
\* list, no pending timer, nothing selected.
C6_ResetRestoresInitial ==
  \A w \in W :
    (last.op = "reset" /\ last.w = w) =>
      /\ inputVal[w] = <<>>
      /\ rendered[w] = <<>> /\ results[w] = <<>>
      /\ timers[w] = {}
      /\ w = "loc" => selectedValue = <<>>
      /\ w = "ppl" => selected = <<>>

\* C7: from reset() to the next input event no query is dispatched and the
\* suggestion list stays empty.
C7_ResetCancelsTimer ==
  [][\A w \in W :
       (quiet[w] /\ quiet'[w]) => ~Dispatched(w) /\ rendered'[w] = <<>>]_vars

\* C8: after a 401 seen by fetchWithAuth, and after logout(), no session item
\* is stored, the current user is cleared and login.html is requested; the
\* 401 makes the call throw.
C8_TeardownClearsSession ==
  /\ last.op \in {"unauth", "logout"} =>
       /\ \A k \in StoreKeys : store[k] = NoItem
       /\ currentUser = NoUser
       /\ href = "login.html"
  /\ PplTry([kind |-> "unauth", data |-> <<>>], <<>>, SelfId).threw

\* C9: a widget has at most one pending fetch timer; it is the one `timeout`
\* names (so the next input event cancels it) and it carries the last input
\* event's text.
C9_OneTimer ==
  \A w \in W :
    /\ Cardinality(timers[w]) <= 1
    /\ \A t \in timers[w] : t.id = timeout[w] /\ t.value = armed[w]

\* a pending timer that replaced an earlier pending one
C9_Witness == \E w \in W : timers[w] # {} /\ burst[w] = 2

\* C10: a failed query (network error, unparsable body, non-success status)
\* leaves the list and results empty, and no fetchSuggestions promise rejects.
C10_FailureClears ==
  /\ last.op # "rejected"
  /\ \A w \in W :
       /\ ~rejected[w]
       /\ (last.w = w /\ last.op \in {"fail", "unauth"}) =>
            rendered[w] = <<>> /\ results[w] = <<>>

\* a query of the location widget failed
C10_Witness == last.op = "fail" /\ last.w = "loc" /\ rendered["loc"] = <<>>

\* the mousedown handler of widget w, on rendered item i
Mousedown(w, i) == IF w = "loc" THEN LocMousedown(i) ELSE PplMousedown(i)

\* widget w has committed the item x
Committed(w, x) ==
  IF w = "loc"
  THEN selectedValue' = PlaceName(x) /\ inputVal'["loc"] = PlaceName(x)
  ELSE selected' = Append(selected, x)

\* C11: a blur leaves the suggestion list as it is and starts a 150 ms timer;
\* the list is emptied only by an input event, a commit, reset(), a response
\* or a blur timer that has run out; and a mousedown on a rendered item while
\* a blur timer is pending commits that item.
C11_CommitBeforeClear ==
  [][\A w \in W :
       /\ Blur(w) =>
            /\ rendered'[w] = rendered[w] /\ results'[w] = results[w]
            /\ 150 \in blurTimers'[w]
       /\ (rendered[w] # <<>> /\ rendered'[w] = <<>>) =>
            \/ inputVal'[w] # inputVal[w]
            \/ Arrived(w)
            \/ last'.op \in {"commit", "commit-in-grace", "reset"}
            \/ 0 \in blurTimers[w] /\ blurTimers'[w] = blurTimers[w] \ {0}
       /\ \A i \in 1..Len(rendered[w]) :
            (blurTimers[w] # {} /\ Mousedown(w, i)) =>
               /\ Committed(w, rendered[w][i])
               /\ rendered'[w] = <<>>]_vars

\* an item was committed while a blur timer was pending
C11_Witness ==
  /\ last.op = "commit-in-grace"
  /\ blurTimers[last.w] # {}

\* C12: the people selector's rendered list and results hold no person who
\* is in the selected collection.
C12_SelectedNotSuggested ==
  /\ \A i \in 1..Len(rendered["ppl"]) : rendered["ppl"][i] \notin Range(selected)
  /\ \A i \in 1..Len(results["ppl"]) : results["ppl"][i] \notin Range(selected)

\* a list is rendered while somebody is selected
C12_Witness == rendered["ppl"] # <<>> /\ selected # <<>>

\* C13: a mousedown on rendered item i of the location widget puts
\* results[i].name in the input and in the committed value and empties the
\* list; getValue() then returns that name, changes only with an input
\* event, a commit or reset(), and is empty right after reset().
C13_CommitSetsValue ==
  [][/\ \A i \in 1..Len(rendered["loc"]) :
          LocMousedown(i) =>
            /\ i \in 1..Len(results["loc"])
            /\ inputVal'["loc"] = PlaceName(results["loc"][i])
            /\ selectedValue' = PlaceName(results["loc"][i])
            /\ rendered'["loc"] = <<>> /\ results'["loc"] = <<>>
            /\ getValue' = PlaceName(results["loc"][i])
     /\ getValue' # getValue =>
          \/ \E v \in Inputs : LocInput(v)
          \/ \E i \in 1..Len(rendered["loc"]) : LocMousedown(i)
          \/ LocReset
     /\ LocReset => getValue' = <<>>]_vars

\* the committed name is what getValue() returns
C13_Witness ==
  /\ last.op = "commit" /\ last.w = "loc"
  /\ getValue = PlaceName(1) /\ inputVal["loc"] = PlaceName(1)

\* the state a widget instance holds in its closure and its elements
Instance(w) ==
  << { [id |-> t.id, value |-> t.value] : t \in timers[w] }, timeout[w],
     inflight[w], results[w], rendered[w], inputVal[w],
     IF w = "loc" THEN selectedValue ELSE selected >>

\* the same, after the step
InstanceAfter(w) ==
  << { [id |-> t.id, value |-> t.value] : t \in timers'[w] }, timeout'[w],
     inflight'[w], results'[w], rendered'[w], inputVal'[w],
     IF w = "loc" THEN selectedValue' ELSE selected' >>

\* C14: no step changes the pending timer, requests, results, rendered list,
\* input, committed value or selections of two instances: an event on one
\* instance leaves the other as it was.
C14_InstancesIndependent ==
  [][\A w1, w2 \in W :
       (w1 # w2 /\ InstanceAfter(w1) # Instance(w1))
         => InstanceAfter(w2) = Instance(w2)]_vars

\* the location widget was reset while the people selector holds a
\* selection and a pending timer
C14_Witness ==
  /\ last.op = "reset" /\ last.w = "loc"
  /\ selected # <<>> /\ timers["ppl"] # {}

\* the bearer flags of the requests fetchWithAuth dispatches in a step
NewBearers ==
  { r.bearer : r \in { x \in authInflight' \ authInflight : x.api \in {"me", "page"} } }
  \cup (IF Dispatched("ppl")
        THEN { inflight'["ppl"][Len(inflight'["ppl"])].bearer } ELSE {})

\* C15: a request dispatched through fetchWithAuth carries a bearer
\* credential iff a token is stored when the call is made; after logout()
\* (button, 401, failed session check) none does until a login succeeds, and
\* only a successful login stores a token.
C15_BearerIffToken ==
  [][/\ \A b \in NewBearers :
          /\ b <=> (store[TokenKey] # NoItem)
          /\ tornDown => ~b
     /\ (store[TokenKey] = NoItem /\ store'[TokenKey] # NoItem) => last'.op = "login"]_vars

\* a query dispatched after the session was torn down, without credential
C15_Witness ==
  /\ tornDown
  /\ inflight["ppl"] # <<>> /\ ~inflight["ppl"][1].bearer

\* C16: whenever the current user is set, or a role, display name or user
\* id is stored, a token is stored.
C16_SessionConsistent ==
  (\/ currentUser # NoUser
   \/ store[RoleKey] # NoItem \/ store[NameKey] # NoItem \/ store[UserIdKey] # NoItem)
    => store[TokenKey] # NoItem

\* C18: a session check that does not succeed (401, other non-OK status,
\* network error, unparsable or null body) leaves no token, role or name
\* stored, no current user, the result null and login.html requested; with
\* no token stored hydrateSession sends nothing and changes no session state.
C18_FailedHydrateLogsOut ==
  [][/\ \A resp \in AuthResponses :
          (resp.kind # "ok" /\ HydrateResponse(resp)) =>
            /\ store'[TokenKey] = NoItem
            /\ store'[RoleKey] = NoItem
            /\ store'[NameKey] = NoItem
            /\ currentUser' = NoUser
            /\ me' = NoUser
            /\ href' = "login.html"
     /\ (InitPage /\ store[TokenKey] = NoItem) =>
          /\ authInflight' = authInflight
          /\ store' = store
          /\ currentUser' = currentUser
          /\ me' = NoUser]_vars

\* hydrateSession has failed and logged out
C18_Witness ==
  /\ last.op = "hydrate-failed"
  /\ store[TokenKey] = NoItem /\ href = "login.html" /\ me = NoUser

\* C19: init() runs a page's binders and loaders only when hydrateSession
\* has settled; with no token on a page other than login and signup it
\* requests login.html and runs none, with a token on login or signup it
\* requests index.html and runs none.
C19_BootstrapGuard ==
  [][/\ boot' # "done" =>
          /\ bound' \subseteq {"bindLogoutButtons"}
          /\ \A r \in authInflight' : r.api # "page"
     /\ boot' = "done" => me' # NotReturned
     /\ (boot # "done" /\ boot' = "done") =>
          IF store'[TokenKey] = NoItem /\ page \notin PublicPages
          THEN href' = "login.html" /\ bound' \subseteq {"bindLogoutButtons"}
          ELSE IF store'[TokenKey] # NoItem /\ page \in PublicPages
          THEN href' = "index.html" /\ bound' \subseteq {"bindLogoutButtons"}
          ELSE bound' = {"bindLogoutButtons"} \cup Binders(page)]_vars

\* the login page was opened with a valid token: redirect, no form bound
C19_Witness ==
  /\ boot = "done" /\ page = "login" /\ last.op = "hydrated"
  /\ href = "index.html" /\ bound = {"bindLogoutButtons"}

\* C17: a form has at most one submission in flight and its submit button
\* is disabled while one is; and the reset at the end of a submission never
\* discards what the user entered after that submission started.
C17_OneSubmissionInFlight ==
  /\ \A f \in F :
       /\ Len(subs[f]) <= 1
       /\ subs[f] # <<>> => disabled[f]
  /\ last.op = "published" => last.n = 0

\* the submit handler of form f has run its catch block: nothing was reset,
\* no request was sent, an error is shown and the button is enabled
Failed(f) ==
  /\ Len(subs'[f]) = Len(subs[f]) - 1
  /\ Cardinality({ j \in 1..Len(subs'[f]) : subs'[f][j].step = "create" })
       <= Cardinality({ j \in 1..Len(subs[f]) : subs[f][j].step = "create" })
  /\ authInflight' = authInflight
  /\ draft' = draft
  /\ modalOpen' = modalOpen
  /\ inputVal' = inputVal /\ selectedValue' = selectedValue /\ selected' = selected
  /\ feedback'[f] \in {"Unauthorized", "Failed to fetch", "Image upload failed",
                       "Unexpected response from server", "Photo creation failed"}
  /\ ~disabled'[f]

\* C20: the creation request is sent only when the upload has answered with
\* an image URL, and carries that URL; when the upload or the creation fails
\* (401 included) nothing further is sent, nothing is reset, the error is
\* shown and the submit button is enabled.
C20_UploadThenCreate ==
  [][\A f \in F :
       /\ \A j \in 1..Len(subs'[f]) :
            subs'[f][j].step = "create" => subs'[f][j].url \in Urls
       /\ \A i \in 1..Len(subs[f]) :
            /\ \A resp \in UploadResponses :
                 UploadResponse(f, i, resp) =>
                   IF resp.kind = "ok"
                   THEN /\ subs'[f][i].step = "create"
                        /\ subs'[f][i].url = resp.url
                        /\ draft' = draft /\ feedback' = feedback
                   ELSE Failed(f)
            /\ \A resp \in CreateResponses :
                 (resp.kind # "ok" /\ CreateResponse(f, i, resp)) => Failed(f)
            /\ (subs[f][i].step = "upload" /\ Len(subs'[f]) = Len(subs[f])
                  /\ subs'[f][i].step = "create") =>
                 \E resp \in UploadResponses :
                   resp.kind = "ok" /\ UploadResponse(f, i, resp)]_vars

\* the creation failed after a successful upload: the form is as it was
C20_Witness ==
  /\ last.op = "submit-failed"
  /\ \E f \in F :
       feedback[f] = "Photo creation failed" /\ draft[f] = "filled" /\ ~disabled[f]


\* C21 (search feed ordering): after input events on the search box, once
\* the debounce timer has fired and every feed request has resolved, each
\* feed grid shows the outcome of the request for the query of the last
\* input event; a slower response to an earlier query, or to the query of
\* the page load, has not overwritten it.
C21_SearchFeedOrdering ==
  (searched /\ searchTimers = {} /\ feedInflight = <<>> /\ boot = "done")
    => \A g \in grids :
         /\ gridShown[g].state # "loading"
         /\ gridShown[g].q = Trim(searchVal)


\* C22 (like buttons): each like button has at most one like-toggle request
\* in flight: a click that dispatches one finds the button enabled and
\* without a request, and leaves it disabled; the button stays disabled
\* while its request is in flight and is enabled again when the request
\* settles, on success and on failure alike; a card click with no token
\* stored, or a click on #like-btn without canInteract, dispatches nothing.
LikesOf(reqs, b, n) ==
  { i \in 1..Len(reqs) : reqs[i].btn = b /\ reqs[i].gen = n }

C22_OneLikeInFlight ==
  [][
    /\ \A i \in 1..Len(likeInflight') :
         LET r == likeInflight'[i]
         IN /\ Cardinality(LikesOf(likeInflight', r.btn, r.gen)) = 1
            /\ (r.btn = "like-btn" \/ r.gen = cardGen'[r.btn]) => likeDisabled'[r.btn]
    /\ Len(likeInflight') > Len(likeInflight) =>
         LET r == likeInflight'[Len(likeInflight')]
         IN /\ ~likeDisabled[r.btn]
            /\ LikesOf(likeInflight, r.btn, r.gen) = {}
            /\ r.btn = "like-btn" => canInteract
            /\ r.btn # "like-btn" => getToken # NoItem
    /\ (last'.op \in {"like-settled", "like-failed"}
          /\ (last'.w = "like-btn" \/ last'.n = cardGen'[last'.w]))
         => ~likeDisabled'[last'.w]
    /\ (last'.op = "like-click"
          /\ (IF last'.w = "like-btn" THEN ~canInteract ELSE getToken = NoItem))
         => likeInflight' = likeInflight
  ]_vars

\* a request of a button failed and the button, still in the document, is
\* enabled again
C22_Witness ==
  /\ last.op = "like-failed"
  /\ Attached([btn |-> last.w, gen |-> last.n])
  /\ ~likeDisabled[last.w]


\* C23 (people selector): getSelectedIds() returns the ids of the selected
\* people in commit order: a commit appends exactly the clicked person at the
\* end, clears the query input and empties the suggestion list; removing a
\* chip removes exactly the entries with that id and leaves the other
\* selections, their relative order and the suggestion list as they were.
C23_CommitOrderAndRemoval ==
  [][
    /\ (last'.op \in {"commit", "commit-in-grace"} /\ last'.w = "ppl") =>
         /\ getSelectedIds' = Append(getSelectedIds, rendered["ppl"][last'.n])
         /\ inputVal'["ppl"] = <<>>
         /\ rendered'["ppl"] = <<>>
         /\ results'["ppl"] = <<>>
    /\ last'.op = "remove" =>
         /\ getSelectedIds' = SelectSeq(getSelectedIds, LAMBDA x : x # last'.n)
         /\ Len(getSelectedIds') < Len(getSelectedIds)
         /\ rendered'["ppl"] = rendered["ppl"]
         /\ results'["ppl"] = results["ppl"]
  ]_vars

\* a chip was removed while a suggestion was showing, and the two people
\* left are in the order of their commits, which is not the order of their ids
C23_Witness ==
  /\ last.op = "remove"
  /\ Len(selected) = 2
  /\ selected[1] > selected[2]
  /\ rendered["ppl"] # <<>>

====
